---------------------------- MODULE Spec2Model ----------------------------
(***************************************************************************)
(* Road elevation lookup (src/app.py): a Streamlit script that loads rows  *)
(* (Road Name, Distance (m), Elevation (m)) from a Google Sheet, lets the  *)
(* user pick a road and a target distance, and on a button press linearly  *)
(* interpolates the elevation with scipy.interpolate.interp1d.             *)
(*                                                                         *)
(* Two specifications:                                                     *)
(*   Spec        one action per script run (main), plus the expiry of the  *)
(*               st.cache_data entry of load_data_from_gsheet.             *)
(*   SpecInterp  interpolate_elevation as a pure function of a data frame  *)
(*               and a target distance drawn from bounded sets.            *)
(*                                                                         *)
(* float64 values are modelled as exact rationals extended with NaN and    *)
(* +-inf (IEEE 754 results of a division by zero); rounding is not         *)
(* modelled.                                                               *)
(***************************************************************************)
EXTENDS Integers, Sequences, FiniteSets, TLC

\* ------------------------------------------------------------------ bounds
MaxLen == 3            \* rows of a frame handed to interpolate_elevation
MaxDist == 2           \* its distances are 0..MaxDist
MaxElev == 2           \* its elevations are 0..MaxElev
MaxRows == 3           \* records of the sheet

VARIABLES
    \* the sheet and the st.cache_data entry of load_data_from_gsheet
    sheet, cache,
    \* locals and output of the last run of main
    data_df, road_names, selected_road, filtered_df, target_distance,
    button, invoked, interpolated_elevation, errors, rendered, marker,
    \* a call of interpolate_elevation on its own
    df_single_road, target, called, outcome

uiVars == <<sheet, cache, data_df, road_names, selected_road, filtered_df,
            target_distance, button, invoked, interpolated_elevation, errors,
            rendered, marker>>

fnVars == <<df_single_road, target, called, outcome>>

vars == <<uiVars, fnVars>>

\* --------------------------------------------------------- float64 values
Abs(i) == IF i < 0 THEN -i ELSE i

Sgn(i) == IF i < 0 THEN -1 ELSE IF i > 0 THEN 1 ELSE 0

RECURSIVE GCD(_, _)
GCD(a, b) == IF b = 0 THEN a ELSE GCD(b, a % b)

\* a finite value n/d in lowest terms with d > 0
Fin(n, d) ==
    LET g == GCD(Abs(n), Abs(d))
        s == Sgn(d)
    IN  [k |-> "fin", n |-> (s * n) \div g, d |-> Abs(d) \div g]

FNum(i) == [k |-> "fin", n |-> i, d |-> 1]

NaN == [k |-> "nan", n |-> 0, d |-> 1]

Inf(s) == [k |-> "inf", n |-> s, d |-> 1]

IsFinite(a) == a.k = "fin"

FNeg(a) == IF a.k = "nan" THEN NaN ELSE [a EXCEPT !.n = -a.n]

FAdd(a, b) ==
    IF a.k = "nan" \/ b.k = "nan" THEN NaN
    ELSE IF a.k = "inf" /\ b.k = "inf" THEN (IF a.n = b.n THEN a ELSE NaN)
    ELSE IF a.k = "inf" THEN a
    ELSE IF b.k = "inf" THEN b
    ELSE Fin(a.n * b.d + b.n * a.d, a.d * b.d)

FSub(a, b) == FAdd(a, FNeg(b))

FMul(a, b) ==
    IF a.k = "nan" \/ b.k = "nan" THEN NaN
    ELSE IF a.k = "inf" \/ b.k = "inf"
         THEN (IF a.n = 0 \/ b.n = 0 THEN NaN ELSE Inf(Sgn(a.n) * Sgn(b.n)))
    ELSE Fin(a.n * b.n, a.d * b.d)

\* numpy true division: x/0 is +-inf, 0/0 is nan, no exception
FDiv(a, b) ==
    IF a.k = "nan" \/ b.k = "nan" THEN NaN
    ELSE IF a.k = "inf" /\ b.k = "inf" THEN NaN
    ELSE IF a.k = "inf" THEN Inf(IF b.n < 0 THEN -a.n ELSE a.n)
    ELSE IF b.k = "inf" THEN FNum(0)
    ELSE IF b.n = 0 THEN (IF a.n = 0 THEN NaN ELSE Inf(Sgn(a.n)))
    ELSE Fin(a.n * b.d, a.d * b.n)

\* a < b on finite values
FLess(a, b) == a.n * b.d < b.n * a.d

\* ------------------------------------------------------------ data frames
\* A frame is a sequence of rows [name, dist, elev]; after the normalizer the
\* numeric columns hold numbers (integers here).
Col(df, c) == [i \in 1..Len(df) |-> df[i][c]]

Max(a, b) == IF a > b THEN a ELSE b

Min(a, b) == IF a < b THEN a ELSE b

\* np.argsort(x, kind="mergesort"): the stable ordering of the indices of x
Rank(x, i) ==
    Cardinality({j \in 1..Len(x) : x[j] < x[i] \/ (x[j] = x[i] /\ j < i)}) + 1

Argsort(x) == [r \in 1..Len(x) |-> CHOOSE i \in 1..Len(x) : Rank(x, i) = r]

\* mutant: side="right", the count of x[i] <= v
SearchsortedRight(x, v) ==
    Cardinality({i \in 1..Len(x) : ~FLess(v, FNum(x[i]))})

\* np.searchsorted(x, v), side="left", on sorted x: the count of x[i] < v
Searchsorted(x, v) ==
    Cardinality({i \in 1..Len(x) : FLess(FNum(x[i]), v)})

\* ndarray.clip(lo, hi) = minimum(maximum(i, lo), hi); hi wins when lo > hi
Clip(i, lo, hi) == Min(Max(i, lo), hi)

\* x[i] with a 0-based index i, negative indices counting from the end
At(x, i) == x[(i % Len(x)) + 1]

\* -------------------------------------------------- interpolate_elevation
\* mutant: the slope taken as dx/dy
CallLinearSwappedSlope(x, y, x_new) ==
    LET x_new_indices == Clip(Searchsorted(x, x_new), 1, Len(x) - 1)
        lo == x_new_indices - 1
        hi == x_new_indices
        x_lo == FNum(At(x, lo))
        x_hi == FNum(At(x, hi))
        y_lo == FNum(At(y, lo))
        y_hi == FNum(At(y, hi))
        slope == FDiv(FSub(x_hi, x_lo), FSub(y_hi, y_lo))
    IN  FAdd(FMul(slope, FSub(x_new, x_lo)), y_lo)

\* interp1d._call_linear: x, y sorted by x; indices are 0-based as in numpy.
\* No guard on x_hi = x_lo: the division is FDiv.
CallLinear(x, y, x_new) ==
    LET x_new_indices == Clip(Searchsorted(x, x_new), 1, Len(x) - 1)
        lo == x_new_indices - 1
        hi == x_new_indices
        x_lo == FNum(At(x, lo))
        x_hi == FNum(At(x, hi))
        y_lo == FNum(At(y, lo))
        y_hi == FNum(At(y, hi))
        slope == FDiv(FSub(y_hi, y_lo), FSub(x_hi, x_lo))
    IN  FAdd(FMul(slope, FSub(x_new, x_lo)), y_lo)

\* The least number of entries interp1d(kind='linear') accepts depends on the
\* installed SciPy: 2 in older releases ("x and y arrays must have at least 2
\* entries"), 1 in newer ones. The repository pins no version.
MinEntries == {1, 2}

Raised == [exc |-> TRUE, val |-> NaN]

Returned(v) == [exc |-> FALSE, val |-> v]

\* interpolate_elevation(df_single_road, target_distance): Raised when
\* interp1d raises ValueError, else the value of f(target_distance).item()
interpolate_elevation(df, tgt, minval) ==
    LET x0 == Col(df, "dist")
        y0 == Col(df, "elev")
        ind == Argsort(x0)
        x == [i \in 1..Len(x0) |-> x0[ind[i]]]
        y == [i \in 1..Len(x0) |-> y0[ind[i]]]
    IN  IF Len(x0) < minval THEN Raised
        ELSE Returned(CallLinear(x, y, tgt))

\* ------------------------------------------------------ the sheet's records
\* worksheet.get_all_records(): every record has the three keys; a cell is a
\* number or a string, '' for a blank cell.
Num(i) == [t |-> "num", n |-> i, s |-> ""]

Str(s) == [t |-> "str", n |-> 0, s |-> s]

NA == [t |-> "na", n |-> 0, s |-> ""]

Rec(name, dist, elev) == [name |-> name, dist |-> dist, elev |-> elev]

GoodRecords ==
    {Rec(Str("A"), Num(0), Num(0)), Rec(Str("A"), Num(0), Num(1)),
     Rec(Str("A"), Num(2), Num(1)), Rec(Str("B"), Num(1), Num(1))}

BadRecords ==
    {Rec(Str(""), Num(0), Num(1)),        \* blank Road Name cell
     Rec(Str("A"), Str("n/a"), Num(1)),   \* non-numeric Distance
     Rec(Str("A"), Num(2), Str(""))}      \* blank Elevation cell

Records == GoodRecords \cup BadRecords

Sheets == UNION {[1..n -> Records] : n \in 0..MaxRows}

\* pd.to_numeric(col, errors='coerce') on one cell: a number stays, anything
\* else becomes NaN (missing)
to_numeric(cell) == IF cell.t = "num" THEN cell ELSE NA

\* df.dropna(subset=[...]) keeps a row iff none of the three cells is missing
\* (None/NaN); a string, the empty string included, is not missing
isna(cell) == cell.t = "na"

RECURSIVE SelectRows(_, _)
SelectRows(rows, keep) ==
    IF rows = <<>> THEN <<>>
    ELSE IF keep[1] THEN <<Head(rows)>> \o SelectRows(Tail(rows), Tail(keep))
    ELSE SelectRows(Tail(rows), Tail(keep))

dropna(df) ==
    SelectRows(df, [i \in 1..Len(df) |->
        ~isna(df[i].name) /\ ~isna(df[i].dist) /\ ~isna(df[i].elev)])

\* lines 34-42: the frame of the records with both numeric columns coerced,
\* rows with a missing value dropped; kept rows hold [name, dist, elev]
Normalize(data) ==
    LET df == [i \in 1..Len(data) |->
                 Rec(data[i].name, to_numeric(data[i].dist),
                     to_numeric(data[i].elev))]
        kept == dropna(df)
    IN  [i \in 1..Len(kept) |->
           [name |-> kept[i].name.s, dist |-> kept[i].dist.n,
            elev |-> kept[i].elev.n]]

\* load_data_from_gsheet without the cache: the returned frame and the
\* st.error it shows. fetch is what the connection did.
FetchOutcomes == {"ok", "no_secret", "exception"}

\* mutant: no st.error and no special case for a frame left empty
load_data_from_gsheet_unchecked(fetch) ==
    IF fetch = "no_secret" THEN [valid |-> TRUE, df |-> <<>>, err |-> "no_secret"]
    ELSE IF fetch = "exception" THEN [valid |-> TRUE, df |-> <<>>, err |-> "load_failed"]
    ELSE [valid |-> TRUE, df |-> Normalize(sheet), err |-> "none"]

load_data_from_gsheet(fetch) ==
    IF fetch = "no_secret" THEN [valid |-> TRUE, df |-> <<>>, err |-> "no_secret"]
    ELSE IF fetch = "exception" THEN [valid |-> TRUE, df |-> <<>>, err |-> "load_failed"]
    ELSE LET df == Normalize(sheet)
         IN  IF df = <<>> THEN [valid |-> TRUE, df |-> <<>>, err |-> "empty_data"]
             ELSE [valid |-> TRUE, df |-> df, err |-> "none"]

NoCache == [valid |-> FALSE, df |-> <<>>, err |-> "none"]

\* --------------------------------------------------------------- main
\* mutant: .tolist() without .unique()
tolist(col) == col

\* Series.unique().tolist(): the values in order of first appearance
unique(col) ==
    SelectRows(col, [i \in 1..Len(col) |-> \A j \in 1..(i - 1) : col[j] # col[i]])

\* data_df[data_df['Road Name'] == selected_road]: the matching rows, in order
FilterRoad(df, name) ==
    SelectRows(df, [i \in 1..Len(df) |-> df[i].name = name])

\* .sort_values('Distance (m)'): the default kind, quicksort, is not stable,
\* so rows of equal distance may come out in either order
IsOrdering(df, p) ==
    /\ \A i, j \in 1..Len(df) : i # j => p[i] # p[j]
    /\ \A i, j \in 1..Len(df) : i < j => df[p[i]].dist <= df[p[j]].dist

\* mutant: the rows left in sheet order
unsorted(df) == {df}

sort_values(df) ==
    {[i \in 1..Len(df) |-> df[p[i]]] :
        p \in {q \in [1..Len(df) -> 1..Len(df)] : IsOrdering(df, q)}}

ColMin(df) == CHOOSE m \in {df[i].dist : i \in 1..Len(df)} :
                  \A i \in 1..Len(df) : m <= df[i].dist

ColMax(df) == CHOOSE m \in {df[i].dist : i \in 1..Len(df)} :
                  \A i \in 1..Len(df) : m >= df[i].dist

\* A widget returns its default in the first run that shows it; in a later
\* run it returns what the user did with it on the page of the run before.
\* st.sidebar.selectbox(options=road_names, index=0)
selectbox(options) ==
    IF "selectbox" \in rendered THEN 1..Len(options) ELSE {1}

\* st.number_input(min_value=min_dist, max_value=max_dist, value=...): the
\* default min + (max - min)/4, or a value entered within the limits
number_input(min_dist, max_dist) ==
    {Fin(3 * min_dist + max_dist, 4)}
        \cup (IF "number_input" \in rendered
              THEN {FNum(v) : v \in min_dist..max_dist} ELSE {})

\* st.button(...): True only in the run its press triggers
st_button == IF "button" \in rendered THEN BOOLEAN ELSE {FALSE}

None == [k |-> "none", n |-> 0, d |-> 1]

NoMarker == [shown |-> FALSE, x |-> None, y |-> None]

NoCall == [exc |-> FALSE, val |-> None]

\* lines 75-79: the load failed or left no row; main returns after the
\* st.error of load_data_from_gsheet
MainUnavailable(res) ==
    /\ data_df' = res.df
    /\ errors' = IF res.err = "none" THEN {} ELSE {res.err}
    /\ rendered' = {"title"}
    /\ road_names' = <<>>
    /\ selected_road' = ""
    /\ filtered_df' = <<>>
    /\ target_distance' = None
    /\ button' = FALSE
    /\ invoked' = FALSE
    /\ interpolated_elevation' = None
    /\ marker' = NoMarker

\* lines 81-175 with the widgets' values: names the selectbox options, sel
\* the chosen index, srt the sorted frame, tgt the number_input value, btn
\* the button, out what interpolate_elevation did if it was called
MainRender(res, names, sel, srt, tgt, btn, out) ==
    LET call == out # NoCall
        ok == call /\ ~out.exc
        elev == IF ok THEN out.val ELSE None
    IN  /\ data_df' = res.df
        /\ road_names' = names
        /\ selected_road' = names[sel]
        /\ filtered_df' = srt
        /\ IF srt = <<>>
           THEN /\ errors' = {"road_not_found"}
                /\ rendered' = {"title", "selectbox"}
                /\ target_distance' = None
                /\ button' = FALSE
                /\ invoked' = FALSE
                /\ interpolated_elevation' = None
                /\ marker' = NoMarker
           ELSE /\ target_distance' = tgt
                /\ button' = btn
                /\ invoked' = call
                /\ interpolated_elevation' = elev
                /\ errors' = IF call /\ out.exc THEN {"calc_error"} ELSE {}
                /\ rendered' = {"title", "selectbox", "overview", "number_input",
                                "button", "chart_line"}
                                 \cup (IF ok THEN {"success", "metric"} ELSE {})
                /\ marker' = IF elev # None
                             THEN [shown |-> TRUE, x |-> tgt, y |-> elev]
                             ELSE NoMarker

\* load_data_from_gsheet under st.cache_data(ttl=600): within the ttl the
\* stored return value is handed back and the st.error it recorded is
\* replayed; otherwise the body runs and its result is stored
CachedLoad ==
    IF cache.valid THEN {cache}
    ELSE {load_data_from_gsheet(fetch) : fetch \in FetchOutcomes}

\* mutant: the call made in every run
ButtonCallAlways(srt, tgt, btn) ==
    {interpolate_elevation(srt, tgt, minval) : minval \in MinEntries}

\* what the button does: nothing unless pressed, else the call's outcome
ButtonCall(srt, tgt, btn) ==
    IF btn THEN {interpolate_elevation(srt, tgt, minval) : minval \in MinEntries}
    ELSE {NoCall}

\* One run of the script
main ==
    /\ \E res \in CachedLoad :
        /\ cache' = res
        /\ IF res.df = <<>>
           THEN MainUnavailable(res)
           ELSE \E names \in {unique(Col(res.df, "name"))} :
                \E sel \in selectbox(names) :
                \E srt \in sort_values(FilterRoad(res.df, names[sel])) :
                \E tgt \in number_input(ColMin(srt), ColMax(srt)) :
                \E btn \in st_button :
                \E out \in ButtonCall(srt, tgt, btn) :
                    MainRender(res, names, sel, srt, tgt, btn, out)
    /\ UNCHANGED <<sheet, fnVars>>

\* the ttl of the cache entry runs out
CacheExpire ==
    /\ cache.valid
    /\ cache' = NoCache
    /\ UNCHANGED <<sheet, data_df, road_names, selected_road, filtered_df,
                   target_distance, button, invoked, interpolated_elevation,
                   errors, rendered, marker, fnVars>>

UiIdle ==
    /\ cache = NoCache
    /\ data_df = <<>>
    /\ road_names = <<>>
    /\ selected_road = ""
    /\ filtered_df = <<>>
    /\ target_distance = None
    /\ button = FALSE
    /\ invoked = FALSE
    /\ interpolated_elevation = None
    /\ errors = {}
    /\ rendered = {}
    /\ marker = NoMarker

Init ==
    /\ sheet \in Sheets
    /\ UiIdle
    /\ df_single_road = <<>>
    /\ target = None
    /\ called = FALSE
    /\ outcome = NoCall

Next == main \/ CacheExpire

Spec == Init /\ [][Next]_vars

\* ---------------------------------------- interpolate_elevation on its own
\* frames as main hands them over: one road, sorted by distance
Samples == {[name |-> "A", dist |-> x, elev |-> y] : x \in 0..MaxDist, y \in 0..MaxElev}

IsSorted(df) == \A i \in 1..(Len(df) - 1) : df[i].dist <= df[i + 1].dist

Frames == {df \in UNION {[1..n -> Samples] : n \in 0..MaxLen} : IsSorted(df)}

\* target distances from below the least to above the greatest distance, in
\* steps of one half
Queries == {Fin(h, 2) : h \in (-2)..(2 * MaxDist + 2)}

InitInterp ==
    /\ sheet = <<>>
    /\ UiIdle
    /\ df_single_road \in Frames
    /\ target \in Queries
    /\ called = FALSE
    /\ outcome = NoCall

Interpolate ==
    /\ ~called
    /\ called' = TRUE
    /\ \E minval \in MinEntries :
           outcome' = interpolate_elevation(df_single_road, target, minval)
    /\ UNCHANGED <<df_single_road, target, uiVars>>

NextInterp == Interpolate

SpecInterp == InitInterp /\ [][NextInterp]_vars

\* ================================================================ claims
\* e_i + (e_{i+1} - e_i) * (q - d_i) / (d_{i+1} - d_i) for the samples i, i+1
LineAt(df, i, q) ==
    FAdd(FNum(df[i].elev),
         FDiv(FMul(FNum(df[i + 1].elev - df[i].elev), FSub(q, FNum(df[i].dist))),
              FNum(df[i + 1].dist - df[i].dist)))

\* q lies in [d_i, d_{i+1}] of two consecutive samples with d_i < d_{i+1}
InSegment(df, i, q) ==
    /\ df[i].dist < df[i + 1].dist
    /\ ~FLess(q, FNum(df[i].dist))
    /\ ~FLess(FNum(df[i + 1].dist), q)

\* sample i is the first of the sorted series with its distance
FirstOfDistance(df, i) == \A j \in 1..(i - 1) : df[j].dist # df[i].dist

\* the elevation of the first sample of the sorted series at distance v
FirstElevation(df, v) ==
    df[CHOOSE i \in 1..Len(df) :
          df[i].dist = v /\ \A j \in 1..(i - 1) : df[j].dist # v].elev

InterpDone == called /\ Len(df_single_road) >= 2

C2_Extrapolation ==
    InterpDone =>
        LET df == df_single_road
            n == Len(df)
        IN  /\ FLess(target, FNum(df[1].dist)) =>
                  /\ ~outcome.exc /\ IsFinite(outcome.val)
                  /\ FMul(FSub(outcome.val, FNum(df[1].elev)),
                          FNum(df[2].dist - df[1].dist))
                       = FMul(FNum(df[2].elev - df[1].elev),
                              FSub(target, FNum(df[1].dist)))
            /\ FLess(FNum(df[n].dist), target) =>
                  /\ ~outcome.exc /\ IsFinite(outcome.val)
                  /\ FMul(FSub(outcome.val, FNum(df[n - 1].elev)),
                          FNum(df[n].dist - df[n - 1].dist))
                       = FMul(FNum(df[n].elev - df[n - 1].elev),
                              FSub(target, FNum(df[n - 1].dist)))

SeriesShown == "number_input" \in rendered

\* C4 as stated: a query on a repeated distance of the series (the least and
\* the greatest distance included) yields the elevation of the first sample
\* of the sorted series at that distance, a finite number.
C4_NoDivisionByZero ==
    (SeriesShown /\ button /\ Len(filtered_df) >= 2) =>
        \A i \in 1..(Len(filtered_df) - 1) :
            (filtered_df[i].dist = filtered_df[i + 1].dist
                 /\ target_distance = FNum(filtered_df[i].dist)) =>
                interpolated_elevation =
                    FNum(FirstElevation(filtered_df, filtered_df[i].dist))

\* C5 as stated: pressing the button on a road of exactly one row shows an
\* error, shows no elevation, sets no interpolated value and draws no marker.
C5_InsufficientData ==
    (SeriesShown /\ button /\ Len(filtered_df) = 1) =>
        /\ "calc_error" \in errors
        /\ interpolated_elevation = None
        /\ "metric" \notin rendered
        /\ ~marker.shown

\* the records the normalizer is to keep: a non-empty Road Name and two
\* numeric fields
Wanted(r) == r.name.t = "str" /\ r.name.s # "" /\ r.dist.t = "num" /\ r.elev.t = "num"

\* C6 as stated: a load that reached the sheet returns the records in source
\* order minus exactly those with an absent or empty Road Name or a
\* non-numeric Distance or Elevation.
C6_Normalizer ==
    (rendered # {} /\ errors \cap {"no_secret", "load_failed"} = {}) =>
        /\ Len(data_df) = Cardinality({i \in 1..Len(sheet) : Wanted(sheet[i])})
        /\ \A k \in 1..Len(data_df) :
               \E i \in 1..Len(sheet) :
                   /\ Wanted(sheet[i])
                   /\ Cardinality({j \in 1..i : Wanted(sheet[j])}) = k
                   /\ data_df[k] = [name |-> sheet[i].name.s,
                                    dist |-> sheet[i].dist.n,
                                    elev |-> sheet[i].elev.n]

LoadErrors == {"no_secret", "load_failed", "empty_data"}

\* C7: a run whose load failed or left no row shows a load error and nothing
\* but the page title (no selector, no distance input, no interpolation, no
\* chart), and main can run again; a run shows a load error only then.
C7_DataUnavailable ==
    rendered # {} =>
        /\ data_df = <<>> =>
               /\ errors # {} /\ errors \subseteq LoadErrors
               /\ rendered = {"title"}
               /\ road_names = <<>>
               /\ target_distance = None
               /\ ~invoked
               /\ interpolated_elevation = None
               /\ ~marker.shown
               /\ ENABLED main
        /\ data_df # <<>> => errors \cap LoadErrors = {}
        /\ (cache.valid /\ (cache.err # "none" \/ cache.df = <<>>)) => data_df = <<>>

\* a run on a sheet whose every record is dropped
C7_Witness ==
    /\ sheet = <<Rec(Str("A"), Str("n/a"), Num(1))>>
    /\ errors = {"empty_data"}
    /\ rendered = {"title"}

\* the index of the first row of df named v
FirstRow(df, v) == CHOOSE i \in 1..Len(df) :
                       df[i].name = v /\ \A j \in 1..(i - 1) : df[j].name # v

\* C8: the selectbox offers every road name of the dataset exactly once, in
\* the order of first occurrence, and the first run that shows it selects
\* the first name.
C8_RoadNames ==
    [][ "selectbox" \in rendered' =>
          /\ \A v \in {data_df'[i].name : i \in 1..Len(data_df')} :
                 Cardinality({k \in 1..Len(road_names') : road_names'[k] = v}) = 1
          /\ \A k \in 1..Len(road_names') :
                 \E i \in 1..Len(data_df') : data_df'[i].name = road_names'[k]
          /\ \A k, m \in 1..Len(road_names') :
                 k < m => FirstRow(data_df', road_names'[k])
                              < FirstRow(data_df', road_names'[m])
          /\ selected_road' \in {road_names'[k] : k \in 1..Len(road_names')}
          /\ "selectbox" \notin rendered => selected_road' = road_names'[1]
      ]_vars

\* rows A, B, A give the options A, B
C8_Witness ==
    /\ "selectbox" \in rendered
    /\ Col(data_df, "name") = <<"A", "B", "A">>
    /\ road_names = <<"A", "B">>

\* the number of rows of df equal to r
Count(df, r) == Cardinality({i \in 1..Len(df) : df[i] = r})

\* C9: the series of the selected road holds exactly the dataset's samples of
\* that name, each as often as the dataset does, in non-decreasing order of
\* distance, and the dataset is the loaded one, unchanged.
C9_SelectRoad ==
    "selectbox" \in rendered =>
        /\ \A i \in 1..Len(filtered_df) : filtered_df[i].name = selected_road
        /\ \A i \in 1..Len(data_df) :
               data_df[i].name = selected_road =>
                   Count(filtered_df, data_df[i]) = Count(data_df, data_df[i])
        /\ \A i \in 1..Len(filtered_df) : Count(data_df, filtered_df[i]) > 0
        /\ \A i \in 1..(Len(filtered_df) - 1) :
               filtered_df[i].dist <= filtered_df[i + 1].dist
        /\ cache.valid => data_df = cache.df
        /\ data_df = Normalize(sheet)

\* road A selected among rows of A and B, A's rows out of order in the sheet
C9_Witness ==
    /\ "selectbox" \in rendered
    /\ data_df = <<[name |-> "A", dist |-> 2, elev |-> 1],
                   [name |-> "B", dist |-> 1, elev |-> 1],
                   [name |-> "A", dist |-> 0, elev |-> 0]>>
    /\ filtered_df = <<[name |-> "A", dist |-> 0, elev |-> 0],
                       [name |-> "A", dist |-> 2, elev |-> 1]>>

\* C10: in a run that reaches a non-empty series the profile line is drawn,
\* interpolate_elevation is called only if the button was pressed in that
\* run, and the marker is drawn iff the call was made and did not raise, at
\* (target distance, interpolated elevation).
C10_OnDemand ==
    ("selectbox" \in rendered /\ filtered_df # <<>>) =>
        /\ "chart_line" \in rendered
        /\ invoked => button
        /\ marker.shown <=> (button /\ invoked /\ "calc_error" \notin errors)
        /\ marker.shown =>
               /\ marker.x = target_distance
               /\ marker.y = interpolated_elevation
               /\ interpolated_elevation # None
        /\ ~marker.shown => interpolated_elevation = None

\* the button was pressed and the marker sits on the profile
C10_Witness ==
    /\ button
    /\ marker.shown
    /\ marker.x = FNum(1)
    /\ marker.y = Fin(1, 2)
    /\ "chart_line" \in rendered

=============================================================================
